---- MODULE Spec2Model ----
(***************************************************************************)
(* dbtemplates/admin.py: the admin integration of database templates.      *)
(*                                                                         *)
(* The module models                                                       *)
(*   - CodeMirrorTextArea.render, the widget of the content field;         *)
(*   - TemplateAdminForm, whose content field is not required;             *)
(*   - TemplateAdmin: its class body (the declared actions) and the two    *)
(*     bulk actions invalidate_cache and repopulate_cache.                 *)
(*                                                                         *)
(* Every admin operation is one synchronous request: an action of the      *)
(* model is one whole request, and the per-request variables (lastOp,      *)
(* queryset, messages, the helper call logs, the form and the rendered     *)
(* output) describe the request that ran last.                             *)
(*                                                                         *)
(* Text is a sequence of fragments (strings); joining fragments is \o.     *)
(***************************************************************************)
EXTENDS Integers, Sequences, FiniteSets, TLC

\* Number of template records in the database (their primary keys 1..N).
NumTemplates == 2

\* Number of form submissions a behaviour may hold.
MaxSaves == 1

VARIABLES
    backend,         \* dbtemplates.models.backend: is a cache backend configured
    USE_CODEMIRROR,  \* dbtemplates.settings.USE_CODEMIRROR
    actions,         \* TemplateAdmin.actions as the class body leaves it
    templates,       \* the template records, by primary key
    cache,           \* the templates the cache backend holds
    cache0,          \* the cache when the admin was loaded
    lastAction,      \* per template, the last bulk action whose selection held it
    saves,           \* number of form submissions so far
    lastOp,          \* the operation of the last request
    queryset,        \* the selection handed to the last bulk action
    messages,        \* the messages message_user sent during the last request
    removeCalls,     \* arguments of the remove_cached_template calls of the request
    addCalls,        \* arguments of the add_template_to_cache calls of the request
    raised,          \* did the last request end with an exception of a helper
    formData,        \* the data submitted to TemplateAdminForm
    formValid,       \* did the form validate
    renderArgs,      \* the arguments of the last render call
    rendered         \* the markup the last render call returned

vars == <<backend, USE_CODEMIRROR, actions, templates, cache, cache0, lastAction,
          saves, lastOp, queryset, messages, removeCalls, addCalls, raised,
          formData, formValid, renderArgs, rendered>>

Templates == 1..NumTemplates

Range(s) == {s[i] : i \in DOMAIN s}

\* The querysets an action can be handed: the selected records, each once,
\* in the order of the change list (ascending primary key).
Querysets ==
    {s \in UNION {[1..n -> Templates] : n \in 0..NumTemplates} :
        \A i, j \in DOMAIN s : i < j => s[i] < s[j]}

(***************************************************************************)
(* Text helpers.                                                           *)
(***************************************************************************)

\* Python's "template % mapping": every placeholder fragment the mapping
\* knows is replaced by its value, the other fragments are kept.
Interpolate(template, mapping) ==
    [i \in DOMAIN template |->
        IF template[i] \in DOMAIN mapping THEN mapping[template[i]] ELSE template[i]]

\* A plural rule that takes zero for singular as well.
ungettext_zero(singular, plural, n) == IF n <= 1 THEN singular ELSE plural

\* ungettext with the default (English) catalogue: singular for exactly one.
ungettext(singular, plural, n) == IF n = 1 THEN singular ELSE plural

NoBackendMessage == <<"There is no active cache backend.">>

InvalidatedSingular == <<"Cache of one template successfully invalidated.">>

InvalidatedPlural == <<"Cache of ", "%(count)d", " templates successfully invalidated.">>

RepopulatedSingular == <<"Cache successfully repopulated with one template.">>

RepopulatedPlural == <<"Cache successfully repopulated with ", "%(count)d", " templates.">>

(***************************************************************************)
(* TemplateAdmin: the class body.                                          *)
(***************************************************************************)

\* ModelAdmin.actions, which TemplateAdmin inherits when it sets none.
ModelAdmin_actions == <<>>

\* A class body that declares the two actions whatever the backend is.
DeclaredActions_always(b) == <<"invalidate_cache", "repopulate_cache">>

\* "if backend: actions = [...]" in the class body.
DeclaredActions(b) ==
    IF b THEN <<"invalidate_cache", "repopulate_cache">> ELSE ModelAdmin_actions

(***************************************************************************)
(* The cache helpers of dbtemplates.models, on the set of cached templates.*)
(***************************************************************************)

remove_cached_template(c, t) == c \ {t}

add_template_to_cache(c, t) == c \cup {t}

(***************************************************************************)
(* TemplateAdmin: the bulk actions.                                        *)
(*                                                                         *)
(* failAt = 0: every helper call returns.  failAt = k > 0: the k-th call   *)
(* raises, and eff says whether that call changed the cache before it      *)
(* raised.  The exception leaves the action at once.                       *)
(***************************************************************************)

\* A loop that stops one template short.
LoopCalls_short(qs, failAt) ==
    IF failAt = 0 THEN SubSeq(qs, 1, Len(qs) - 1) ELSE SubSeq(qs, 1, failAt)

\* The helper calls of "for template in queryset: helper(template)".
LoopCalls(qs, failAt) ==
    IF failAt = 0 THEN qs ELSE SubSeq(qs, 1, failAt)

\* A loop that never reaches the first template of the queryset.
RECURSIVE invalidate_loop_skip(_, _)
invalidate_loop_skip(c, calls) ==
    IF Len(calls) <= 1 THEN c
    ELSE invalidate_loop_skip(remove_cached_template(c, calls[Len(calls)]),
                              SubSeq(calls, 1, Len(calls) - 1))

\* The cache after remove_cached_template ran for each of calls, in order.
RECURSIVE invalidate_loop(_, _)
invalidate_loop(c, calls) ==
    IF calls = <<>> THEN c
    ELSE invalidate_loop(remove_cached_template(c, Head(calls)), Tail(calls))

\* The cache after add_template_to_cache ran for each of calls, in order.
RECURSIVE repopulate_loop(_, _)
repopulate_loop(c, calls) ==
    IF calls = <<>> THEN c
    ELSE repopulate_loop(add_template_to_cache(c, Head(calls)), Tail(calls))

\* The calls of a loop that took effect: all of them, but for a raising
\* call that had not yet changed the cache.
Effective(qs, failAt, eff) ==
    IF failAt = 0 \/ eff THEN LoopCalls(qs, failAt) ELSE SubSeq(qs, 1, failAt - 1)

\* A formatting that leaves the placeholder in the message.
FormatCount_raw(message, n) == message

\* message % {'count': len(queryset)}
FormatCount(message, n) == Interpolate(message, "%(count)d" :> ToString(n))

\* The outcome of a request: what it sent, called, left in the cache.
Outcome(msgs, rem, add, c, exc) ==
    [messages |-> msgs, removeCalls |-> rem, addCalls |-> add, cache |-> c, raised |-> exc]

\* invalidate_cache without the early return of the missing backend.
invalidate_cache_run_noreturn(b, c, qs, failAt, eff) ==
    Outcome((IF b THEN <<>> ELSE <<NoBackendMessage>>)
                \o <<FormatCount(ungettext(InvalidatedSingular, InvalidatedPlural, Len(qs)),
                                 Len(qs))>>,
            qs, <<>>, invalidate_loop(c, qs), FALSE)

\* TemplateAdmin.invalidate_cache
invalidate_cache_run(b, c, qs, failAt, eff) ==
    IF ~b THEN Outcome(<<NoBackendMessage>>, <<>>, <<>>, c, FALSE)
    ELSE IF failAt # 0
    THEN Outcome(<<>>, LoopCalls(qs, failAt), <<>>,
                 invalidate_loop(c, Effective(qs, failAt, eff)), TRUE)
    ELSE Outcome(<<FormatCount(ungettext(InvalidatedSingular, InvalidatedPlural, Len(qs)),
                               Len(qs))>>,
                 LoopCalls(qs, failAt), <<>>,
                 invalidate_loop(c, Effective(qs, failAt, eff)), FALSE)

\* repopulate_cache with the message sent before the loop runs.
repopulate_cache_run_message_first(b, c, qs, failAt, eff) ==
    IF ~b THEN Outcome(<<NoBackendMessage>>, <<>>, <<>>, c, FALSE)
    ELSE Outcome(<<FormatCount(ungettext(RepopulatedSingular, RepopulatedPlural, Len(qs)),
                               Len(qs))>>,
                 <<>>, LoopCalls(qs, failAt),
                 repopulate_loop(c, Effective(qs, failAt, eff)), failAt # 0)

\* TemplateAdmin.repopulate_cache
repopulate_cache_run(b, c, qs, failAt, eff) ==
    IF ~b THEN Outcome(<<NoBackendMessage>>, <<>>, <<>>, c, FALSE)
    ELSE IF failAt # 0
    THEN Outcome(<<>>, <<>>, LoopCalls(qs, failAt),
                 repopulate_loop(c, Effective(qs, failAt, eff)), TRUE)
    ELSE Outcome(<<FormatCount(ungettext(RepopulatedSingular, RepopulatedPlural, Len(qs)),
                               Len(qs))>>,
                 <<>>, LoopCalls(qs, failAt),
                 repopulate_loop(c, Effective(qs, failAt, eff)), FALSE)

\* An action that saves every selected template again.
records_after_action_saved(tpls, qs) ==
    [t \in DOMAIN tpls |->
        IF t \in Range(qs) THEN [tpls[t] EXCEPT !.last_changed = @ + 1] ELSE tpls[t]]

\* The template records after a bulk action: neither action saves, creates
\* or deletes a record.
records_after_action(tpls, qs) == tpls

(***************************************************************************)
(* TemplateAdminForm and the record it saves.                              *)
(***************************************************************************)

\* The content a form can submit.
Contents == {"", "edited"}

\* The template the other loaders find under the name of a record ("" when
\* they find none).
LoaderContent(name) == IF name = "t1" THEN "from loader" ELSE ""

TemplateName(pk) == "t" \o ToString(pk)

\* The records the database holds when the admin is loaded.
InitialRecords ==
    [pk \in Templates |->
        [name |-> TemplateName(pk), content |-> "stored", creation_date |-> 0,
         last_changed |-> 0, sites |-> {"example.com"}]]

\* A content field declared without required=False.
content_required_default == TRUE

\* content = forms.CharField(..., required=False)
content_required == FALSE

\* CharField.clean: only a required field rejects the empty value.
CharField_valid(value, required) == ~(required /\ value = "")

\* Template.save as the help text of the field states it: an empty content
\* is filled with the template the loaders find under the record's name.
Template_save(record, content, now) ==
    [record EXCEPT !.content = IF content = "" THEN LoaderContent(record.name) ELSE content,
                   !.last_changed = now]

(***************************************************************************)
(* CodeMirrorTextArea.                                                     *)
(***************************************************************************)

MEDIA_PREFIX == "/media/dbtemplates/"

\* The names render is called with (a plain field, a field with a prefix).
FieldNames == {"content", "form-0-content"}

\* The values render is called with: None or a text.
Values ==
    {[isNone |-> TRUE, text |-> ""]} \cup
    {[isNone |-> FALSE, text |-> t] : t \in {"", "{{ x }}", "</textarea>"}}

\* The attributes render is called with, as flattened markup.
Attrs == {<<>>, <<" id=\"id_content\"">>}

\* The attributes the form gives the widget: CodeMirrorTextArea({'rows': '24'}).
WidgetAttrs == <<" rows=\"24\"">>

\* escape() of the value on its way into the markup.
Escape(text) == IF text = "</textarea>" THEN "&lt;/textarea&gt;" ELSE text

\* forms.Textarea.render, the base widget.
Textarea_render(name, value, attrs) ==
    <<"<textarea">> \o WidgetAttrs \o attrs \o
    <<" name=\"", name, "\">", IF value.isNone THEN "" ELSE Escape(value.text),
      "</textarea>">>

\* The script template of render.
ScriptTemplate ==
    <<"<script type=\"text/javascript\"> var editor = CodeMirror.fromTextArea('id_",
      "%(name)s",
      "', { path: \"",
      "%(media_prefix)s",
      "js/\", parserfile: \"parsedjango.js\", stylesheet: \"",
      "%(media_prefix)s",
      "css/django.css\", continuousScanning: 500, height: \"40.2em\", tabMode: \"shift\", indentUnit: 4, lineNumbers: true }); </script>">>

\* A render whose script always targets the content field.
CodeMirrorTextArea_render_fixed(name, value, attrs, useCodemirror) ==
    Textarea_render(name, value, attrs) \o
    (IF useCodemirror
     THEN Interpolate(ScriptTemplate,
                      "%(media_prefix)s" :> MEDIA_PREFIX @@ "%(name)s" :> "content")
     ELSE <<>>)

\* CodeMirrorTextArea.render
CodeMirrorTextArea_render(name, value, attrs, useCodemirror) ==
    Textarea_render(name, value, attrs) \o
    (IF useCodemirror
     THEN Interpolate(ScriptTemplate,
                      "%(media_prefix)s" :> MEDIA_PREFIX @@ "%(name)s" :> name)
     ELSE <<>>)

(***************************************************************************)
(* The state machine.                                                      *)
(***************************************************************************)

NoForm == [pk |-> 0, content |-> ""]

NoRender == [name |-> "", value |-> [isNone |-> TRUE, text |-> ""], attrs |-> <<>>]

BulkOps == {"invalidate_cache", "repopulate_cache"}

Init ==
    /\ backend \in BOOLEAN
    /\ USE_CODEMIRROR \in BOOLEAN
    /\ actions = DeclaredActions(backend)
    /\ templates = InitialRecords
    /\ cache \in (IF backend THEN SUBSET Templates ELSE {{}})
    /\ cache0 = cache
    /\ lastAction = [t \in Templates |-> "none"]
    /\ saves = 0
    /\ lastOp = "none"
    /\ queryset = <<>>
    /\ messages = <<>>
    /\ removeCalls = <<>>
    /\ addCalls = <<>>
    /\ raised = FALSE
    /\ formData = NoForm
    /\ formValid = FALSE
    /\ renderArgs = NoRender
    /\ rendered = <<>>

\* One request running the bulk action op on the selection qs.
BulkRequest(op, qs, failAt, eff) ==
    LET r == IF op = "invalidate_cache"
             THEN invalidate_cache_run(backend, cache, qs, failAt, eff)
             ELSE repopulate_cache_run(backend, cache, qs, failAt, eff)
    IN  /\ lastOp' = op
        /\ queryset' = qs
        /\ messages' = r.messages
        /\ removeCalls' = r.removeCalls
        /\ addCalls' = r.addCalls
        /\ cache' = r.cache
        /\ raised' = r.raised
        /\ templates' = records_after_action(templates, qs)
        /\ lastAction' = [t \in Templates |-> IF t \in Range(qs) THEN op ELSE lastAction[t]]
        /\ formData' = NoForm
        /\ formValid' = FALSE
        /\ renderArgs' = NoRender
        /\ rendered' = <<>>
        /\ UNCHANGED <<backend, USE_CODEMIRROR, actions, cache0, saves>>

invalidate_cache ==
    \E qs \in Querysets : BulkRequest("invalidate_cache", qs, 0, FALSE)

repopulate_cache ==
    \E qs \in Querysets : BulkRequest("repopulate_cache", qs, 0, FALSE)

\* The helper raises on the k-th template of the selection.
invalidate_cache_raises ==
    /\ backend
    /\ \E qs \in Querysets : \E k \in 1..Len(qs) : \E eff \in BOOLEAN :
            BulkRequest("invalidate_cache", qs, k, eff)

repopulate_cache_raises ==
    /\ backend
    /\ \E qs \in Querysets : \E k \in 1..Len(qs) : \E eff \in BOOLEAN :
            BulkRequest("repopulate_cache", qs, k, eff)

\* The change form of a record is submitted.
save_form ==
    /\ saves < MaxSaves
    /\ \E pk \in Templates : \E content \in Contents :
        /\ saves' = saves + 1
        /\ lastOp' = "save"
        /\ formData' = [pk |-> pk, content |-> content]
        /\ formValid' = CharField_valid(content, content_required)
        /\ templates' = IF CharField_valid(content, content_required)
                        THEN [templates EXCEPT ![pk] = Template_save(@, content, saves + 1)]
                        ELSE templates
        /\ queryset' = <<>>
        /\ messages' = <<>>
        /\ removeCalls' = <<>>
        /\ addCalls' = <<>>
        /\ raised' = FALSE
        /\ renderArgs' = NoRender
        /\ rendered' = <<>>
        /\ UNCHANGED <<backend, USE_CODEMIRROR, actions, cache, cache0, lastAction>>

\* The widget is rendered.
render ==
    \E name \in FieldNames : \E value \in Values : \E attrs \in Attrs :
        /\ lastOp' = "render"
        /\ renderArgs' = [name |-> name, value |-> value, attrs |-> attrs]
        /\ rendered' = CodeMirrorTextArea_render(name, value, attrs, USE_CODEMIRROR)
        /\ queryset' = <<>>
        /\ messages' = <<>>
        /\ removeCalls' = <<>>
        /\ addCalls' = <<>>
        /\ raised' = FALSE
        /\ formData' = NoForm
        /\ formValid' = FALSE
        /\ UNCHANGED <<backend, USE_CODEMIRROR, actions, templates, cache, cache0,
                       lastAction, saves>>

Next == invalidate_cache \/ repopulate_cache \/ save_form

\* The admin requests, every helper call returning.
Spec == Init /\ [][Next]_vars

NextRaise ==
    \/ invalidate_cache
    \/ repopulate_cache
    \/ invalidate_cache_raises
    \/ repopulate_cache_raises

\* The admin requests, a helper call being free to raise.
SpecRaise == Init /\ [][NextRaise]_vars

NextWidget == render \/ save_form

\* The change form: it is rendered and submitted.
SpecWidget == Init /\ [][NextWidget]_vars

(***************************************************************************)
(* Properties.                                                             *)
(***************************************************************************)

\* Number of times t occurs in the call log s.
Count(s, t) == Cardinality({i \in DOMAIN s : s[i] = t})

\* C1: without a cache backend, either bulk action, whatever the selection,
\* sends exactly the one message "There is no active cache backend.", calls
\* neither helper and sends no success message.
C1_NoBackendShortCircuit ==
    (lastOp \in BulkOps /\ ~backend) =>
        /\ messages = << <<"There is no active cache backend.">> >>
        /\ removeCalls = <<>>
        /\ addCalls = <<>>

C1_Witness ==
    /\ ~backend
    /\ lastOp = "repopulate_cache"
    /\ Len(queryset) = NumTemplates

C3_PluralizedMessage ==
    (backend /\ lastOp \in BulkOps /\ ~raised) =>
        LET n == Len(queryset)
            singular == IF lastOp = "invalidate_cache"
                        THEN <<"Cache of one template successfully invalidated.">>
                        ELSE <<"Cache successfully repopulated with one template.">>
            plural == IF lastOp = "invalidate_cache"
                      THEN <<"Cache of ", ToString(n), " templates successfully invalidated.">>
                      ELSE <<"Cache successfully repopulated with ", ToString(n), " templates.">>
        IN  /\ Len(messages) = 1
            /\ (messages[1] = singular) <=> (n = 1)
            /\ (n # 1) => messages[1] = plural
            /\ Len(removeCalls) + Len(addCalls) = n

C3_Witness ==
    /\ backend
    /\ lastOp = "invalidate_cache"
    /\ ~raised
    /\ Len(queryset) = 2
    /\ Len(messages) = 1

\* C4: the class declares the actions invalidate_cache and repopulate_cache
\* iff a cache backend is configured; without one, neither is in the list.
C4_ActionsGatedByBackend ==
    /\ ("invalidate_cache" \in Range(actions) /\ "repopulate_cache" \in Range(actions))
            <=> backend
    /\ ~backend => Range(actions) \cap BulkOps = {}

C4_Witness ==
    /\ ~backend
    /\ lastOp \in BulkOps

\* C5: a bulk action, with or without a backend, leaves every template
\* record as it was: no field of a record changes, none is created or deleted.
C5_RecordsUntouched ==
    [][lastOp' \in BulkOps => templates' = templates]_vars

C5_Witness ==
    /\ lastOp \in BulkOps
    /\ queryset # <<>>
    /\ templates # InitialRecords

\* C6: the output of render begins with the markup of the base textarea for
\* the same name, value and attributes; the editor script follows iff
\* USE_CODEMIRROR is set, and it targets the element 'id_' + name.
C6_RenderOutput ==
    (lastOp = "render") =>
        LET base == Textarea_render(renderArgs.name, renderArgs.value, renderArgs.attrs)
            n == Len(base)
        IN  /\ Len(rendered) >= n
            /\ SubSeq(rendered, 1, n) = base
            /\ (Len(rendered) > n) <=> USE_CODEMIRROR
            /\ USE_CODEMIRROR =>
                    /\ Len(rendered) >= n + 2
                    /\ rendered[n + 1] = ScriptTemplate[1]
                    /\ rendered[n + 2] = renderArgs.name

C6_Witness ==
    /\ lastOp = "render"
    /\ USE_CODEMIRROR
    /\ renderArgs.name = "form-0-content"

C8_RaiseStopsAction ==
    (raised /\ lastOp \in BulkOps) =>
        LET calls == IF lastOp = "invalidate_cache" THEN removeCalls ELSE addCalls
            other == IF lastOp = "invalidate_cache" THEN addCalls ELSE removeCalls
            k == Len(calls)
        IN  /\ messages = <<>>
            /\ other = <<>>
            /\ k \in 1..Len(queryset)
            /\ calls = SubSeq(queryset, 1, k)
            /\ \A i \in 1..(k - 1) :
                    (queryset[i] \in cache) <=> (lastOp = "repopulate_cache")

C8_Witness ==
    /\ raised
    /\ lastOp = "repopulate_cache"
    /\ Len(queryset) = 2
    /\ Len(addCalls) = 1

\* C9: with a backend and an empty selection, a bulk action calls no helper
\* and sends exactly one message, the plural form with the count 0.
C9_EmptySelection ==
    (backend /\ lastOp \in BulkOps /\ queryset = <<>>) =>
        /\ removeCalls = <<>>
        /\ addCalls = <<>>
        /\ messages =
            << IF lastOp = "invalidate_cache"
               THEN <<"Cache of ", "0", " templates successfully invalidated.">>
               ELSE <<"Cache successfully repopulated with ", "0", " templates.">> >>

C9_Witness ==
    /\ backend
    /\ lastOp = "invalidate_cache"
    /\ queryset = <<>>
    /\ Len(messages) = 1

\* The cache the history of selections dictates.
C10_CacheAsLastAction ==
    backend =>
        \A t \in Templates :
            (t \in cache) <=>
                \/ lastAction[t] = "repopulate_cache"
                \/ (lastAction[t] = "none" /\ t \in cache0)

\* The same action run again on the same selection leaves the cache as it is.
C10_Idempotent ==
    (backend /\ lastOp' \in BulkOps /\ lastOp' = lastOp /\ queryset' = queryset)
        => cache' = cache

\* C10: with a backend, after any sequence of bulk actions a template is
\* cached iff the last action that selected it was repopulate_cache, and a
\* template no action selected is cached iff it was cached at the start;
\* each action is idempotent on the cache.
C10_CacheFollowsLastAction ==
    []C10_CacheAsLastAction /\ [][C10_Idempotent]_vars

C10_Witness ==
    /\ backend
    /\ lastAction[1] = "invalidate_cache"
    /\ 1 \in cache0
    /\ lastAction[2] = "none"
    /\ 2 \in cache0
    /\ cache = {2}

====
